---- MODULE Spec2Model ----
(***************************************************************************)
(* django-fsm: declarative state transitions on Django models.             *)
(*                                                                         *)
(* The module models django_fsm/db/fields/fsmfield.py: the per-method      *)
(* FSMMeta registry filled by the transition decorator, the wrapper        *)
(* _change_state that dispatches a call (legality check, guards, body,     *)
(* state advance, save), and the two queries can_proceed and               *)
(* accessible_states.  The model classes of django_fsm/tests.py are the    *)
(* clients, together with one class that stacks transition decorators and  *)
(* one that subclasses BlogPostWithFKState.                                *)
(* Python values are strings; None is "None".  An operator that can raise  *)
(* returns a record whose exc field names the exception ("none" when it    *)
(* returned).                                                              *)
(***************************************************************************)
EXTENDS Naturals, Sequences, FiniteSets, TLC

VARIABLES
    klass,           \* the model class of each instance
    fields,          \* fields[i][name]: the attribute values of instance i
    _state_actions,  \* per class: the cached index (cls._state_actions)
    threads,         \* per thread: where it is in accessible_states, its locals
    scans,           \* per class: how many times the member scan has run
    last             \* the last operation: its inputs, outcome and event trace

vars == <<klass, fields, _state_actions, threads, scans, last>>

(***************************************************************************)
(* Bounds of the model and the inputs drawn from them                      *)
(***************************************************************************)
\* Positional arguments passed to a transition call or a query, at most.
MaxArgs == 1

Instances == {"a", "b"}

\* Threads that call accessible_states concurrently, each on the instance it
\* works with.
Threads == {"t1", "t2"}
Entity(t) == IF t = "t1" THEN "a" ELSE "b"

\* Values passed as arguments (tests.py: 'foo', 'bar').
Users == {"foo", "bar"}

RECURSIVE SeqsUpTo(_, _)
SeqsUpTo(S, n) ==
    IF n = 0 THEN {<<>>}
    ELSE LET shorter == SeqsUpTo(S, n - 1)
         IN  shorter \cup {Append(s, x) : s \in {t \in shorter : Len(t) = n - 1}, x \in S}

\* A call's *args: the positional values after the instance.
ArgChoices == {[pos |-> p] : p \in SeqsUpTo(Users, MaxArgs)}

\* What the undecorated method body does: raise, or return a value.
BodyChoices ==
    {[raises |-> TRUE, ret |-> "None"],
     [raises |-> FALSE, ret |-> "None"],
     [raises |-> FALSE, ret |-> "done"]}

(***************************************************************************)
(* The client classes (django_fsm/tests.py)                                *)
(***************************************************************************)
Wildcard == "*"

Classes ==
    {"BlogPost", "InvalidModel", "BlogPostStatus", "BlogPostWithFKState",
     "BlogPostWithConditions", "StackedPost", "FeaturedPost"}

\* The base class of a model class that has one among the model classes
\* (class FeaturedPost(BlogPostWithFKState)); "object" stands for the others'
\* bases.
Base(cls) == IF cls = "FeaturedPost" THEN "BlogPostWithFKState" ELSE "object"

Subclasses(cls) == {c \in Classes : Base(c) = cls}

Fld(n, t, d) == [name |-> n, type |-> t, default |-> d]

\* instance._meta.fields of each class, in declaration order.
MetaFields(cls) ==
    CASE cls = "BlogPost" ->
            <<Fld("id", "AutoField", "None"), Fld("state", "FSMField", "new")>>
      [] cls = "InvalidModel" ->
            <<Fld("id", "AutoField", "None"), Fld("state", "FSMField", "new"),
              Fld("action", "FSMField", "no")>>
      [] cls = "BlogPostStatus" ->
            <<Fld("id", "AutoField", "None"), Fld("name", "CharField", "")>>
      [] cls = "BlogPostWithFKState" ->
            <<Fld("id", "AutoField", "None"), Fld("status", "FSMKeyField", "new")>>
      [] cls = "BlogPostWithConditions" ->
            <<Fld("id", "AutoField", "None"), Fld("state", "FSMField", "new")>>
      [] cls = "StackedPost" ->
            <<Fld("id", "AutoField", "None"), Fld("state", "FSMField", "new")>>
      [] cls = "FeaturedPost" ->
            <<Fld("id", "AutoField", "None"), Fld("status", "FSMKeyField", "new"),
              Fld("blogpostwithfkstate_ptr", "OneToOneField", "None")>>

FieldNames(cls) == {MetaFields(cls)[k].name : k \in 1..Len(MetaFields(cls))}

\* A freshly constructed instance: every field at its default.
NewInstance(cls) ==
    [n \in FieldNames(cls) |->
        (CHOOSE f \in {MetaFields(cls)[k] : k \in 1..Len(MetaFields(cls))} : f.name = n).default]

\* One use of the decorator: transition(source, target, save, conditions).
\* source is a scalar (list = FALSE, one state) or a list of states.
One(s)  == [list |-> FALSE, states |-> <<s>>]
Many(l) == [list |-> TRUE, states |-> l]
Tr(src, tgt, sv, conds) == [source |-> src, target |-> tgt, save |-> sv, conditions |-> conds]

\* The decorators on each method of each class, the one nearest the def first
\* (Python applies them bottom-up).
Decorators(cls) ==
    CASE cls = "BlogPost" ->
            [publish  |-> <<Tr(One("new"), "published", FALSE, <<>>)>>,
             hide     |-> <<Tr(One("published"), "hidden", FALSE, <<>>)>>,
             remove   |-> <<Tr(One("new"), "removed", FALSE, <<>>)>>,
             steal    |-> <<Tr(Many(<<"published", "hidden">>), "stolen", FALSE, <<>>)>>,
             moderate |-> <<Tr(One(Wildcard), "moderated", FALSE, <<>>)>>]
      [] cls = "InvalidModel" ->
            [validate |-> <<Tr(One("new"), "no", FALSE, <<>>)>>]
      [] cls = "BlogPostStatus" ->
            [publish |-> <<Tr(One("new"), "published", FALSE, <<>>)>>]
      [] cls = "BlogPostWithFKState" ->
            [publish |-> <<Tr(One("new"), "published", FALSE, <<>>)>>,
             hide    |-> <<Tr(One("published"), "hidden", TRUE, <<>>)>>]
      [] cls = "BlogPostWithConditions" ->
            [publish   |-> <<Tr(One("new"), "published", FALSE,
                                <<"condition_func", "model_condition">>)>>,
             destroy   |-> <<Tr(One("published"), "destroyed", FALSE,
                                <<"condition_func", "unmet_condition">>)>>,
             approve   |-> <<Tr(One("published"), "approved", FALSE,
                                <<"condition_func", "variable_condition">>)>>,
             bless     |-> <<Tr(One("published"), "holy", FALSE,
                                <<"variable_condition">>)>>,
             mark_spam |-> <<Tr(Many(<<"published", "new">>), "spam", FALSE,
                                <<"condition_func2">>)>>]
      [] cls = "StackedPost" ->
            [publish |-> <<Tr(One("new"), "published", FALSE, <<>>)>>,
             promote |-> <<Tr(One("new"), "review", FALSE, <<>>),
                           Tr(One("review"), "published", FALSE, <<>>)>>,
             archive |-> <<Tr(One("published"), "archived", FALSE, <<>>),
                           Tr(One(Wildcard), "trashed", TRUE, <<>>)>>,
             submit  |-> <<Tr(One("new"), "draft", FALSE, <<"unmet_condition">>),
                           Tr(One("draft"), "published", FALSE, <<"model_condition">>)>>,
             vet     |-> <<Tr(One("new"), "published", FALSE,
                              <<"unmet_condition", "model_condition">>)>>]
      [] cls = "FeaturedPost" ->
            [publish |-> <<Tr(One("new"), "published", FALSE, <<>>)>>,
             hide    |-> <<Tr(One("published"), "hidden", TRUE, <<>>)>>,
             feature |-> <<Tr(One("published"), "featured", FALSE, <<>>)>>]

TransitionMethods(cls) == DOMAIN Decorators(cls)

\* dir(instance): the attribute names, sorted as Python sorts them.
Dir(cls) ==
    CASE cls = "BlogPost" ->
            <<"DoesNotExist", "_meta", "hide", "id", "moderate", "objects", "pk",
              "publish", "remove", "save", "state", "steal">>
      [] cls = "InvalidModel" ->
            <<"DoesNotExist", "_meta", "action", "id", "objects", "pk", "save",
              "state", "validate">>
      [] cls = "BlogPostStatus" ->
            <<"DoesNotExist", "_meta", "id", "name", "objects", "pk", "publish", "save">>
      [] cls = "BlogPostWithFKState" ->
            <<"DoesNotExist", "_meta", "hide", "id", "objects", "pk", "publish",
              "save", "status">>
      [] cls = "BlogPostWithConditions" ->
            <<"DoesNotExist", "_meta", "accessible", "approve", "bless", "destroy",
              "id", "mark_spam", "model_condition", "objects", "pk", "publish",
              "save", "state", "unmet_condition", "variable_condition">>
      [] cls = "StackedPost" ->
            <<"DoesNotExist", "_meta", "archive", "id", "model_condition", "objects",
              "pk", "promote", "publish", "save", "state", "submit",
              "unmet_condition", "vet">>
      [] cls = "FeaturedPost" ->
            <<"DoesNotExist", "_meta", "blogpostwithfkstate_ptr", "feature", "hide",
              "id", "objects", "pk", "publish", "save", "status">>

\* Attributes that are callable without being transitions.
PlainCallables ==
    {"DoesNotExist", "save", "accessible", "model_condition", "unmet_condition",
     "variable_condition"}

\* getattr(instance, 'objects') raises AttributeError: a manager is not
\* accessible through an instance.
Unreadable == {"objects"}

(***************************************************************************)
(* Guard predicates (tests.py).  A guard is called as                      *)
(* condition(instance, *args, **kwargs); a call that does not fit the      *)
(* guard's signature raises TypeError.                                     *)
(***************************************************************************)
\* def variable_condition(self, user, moderator='bar')
variable_condition(args) ==
    IF Len(args.pos) = 0 \/ Len(args.pos) > 2 THEN "TypeError"
    ELSE LET user      == args.pos[1]
             moderator == IF Len(args.pos) = 2 THEN args.pos[2] ELSE "bar"
         IN  IF user # moderator THEN "False" ELSE "True"

\* def condition_func2(instance)
condition_func2(args) ==
    IF Len(args.pos) = 0 THEN "True" ELSE "TypeError"

\* The outcome of condition(instance, *args, **kwargs): "True", "False" or
\* "TypeError".
CallCondition(g, args) ==
    CASE g = "condition_func"     -> "True"
      [] g = "condition_func2"    -> condition_func2(args)
      [] g = "model_condition"    -> "True"
      [] g = "unmet_condition"    -> "False"
      [] g = "variable_condition" -> variable_condition(args)

(***************************************************************************)
(* Events of one operation, in the order they happen                       *)
(***************************************************************************)
Ev(e, w, r) == [ev |-> e, what |-> w, res |-> r]

Log(ctx, e) == [ctx EXCEPT !.trace = Append(@, e)]

Result(c, e, v) == [ctx |-> c, exc |-> e, val |-> v]

(***************************************************************************)
(* FSMMeta: the registry attached to a decorated function                  *)
(***************************************************************************)
\* FSMMeta.__init__: two empty dictionaries (defaultdict() without a
\* default factory raises KeyError on a missing key, like dict).
FSMMeta == [transitions |-> <<>>, conditions |-> <<>>]

has_key(d, k) == k \in DOMAIN d

\* d[k] = v
SetItem(d, k, v) == (k :> v) @@ d

Truthy(v) == v \notin {"", "None", "False"}

\* transition(...): the decorator factory refuses a missing target.
transition(d) == IF ~Truthy(d.target) THEN "ValueError" ELSE "none"

RECURSIVE RegisterSources(_, _, _)
\* for state in source: func._django_fsm.transitions[state] = target
RegisterSources(transitions, states, target) ==
    IF states = <<>> THEN transitions
    ELSE RegisterSources(SetItem(transitions, Head(states), target), Tail(states), target)

\* inner_transition(func), the registration part: meta is func._django_fsm
\* (created by the first decorator, shared by the later ones).
inner_transition(meta, d) ==
    [transitions |->
        IF d.source.list
        THEN RegisterSources(meta.transitions, d.source.states, d.target)
        ELSE SetItem(meta.transitions, d.source.states[1], d.target),
     conditions |-> SetItem(meta.conditions, d.target, d.conditions)]

RECURSIVE Decorate(_, _)
\* The registry after applying the decorators decs, innermost first.
Decorate(meta, decs) ==
    IF decs = <<>> THEN meta
    ELSE Decorate(inner_transition(meta, Head(decs)), Tail(decs))

\* Every func._django_fsm once the class bodies have run.
Registry ==
    [c \in Classes |-> [m \in TransitionMethods(c) |-> Decorate(FSMMeta, Decorators(c)[m])]]

\* func._django_fsm of method m of class cls.
django_fsm(cls, m) == Registry[cls][m]

\* isinstance(field, FSMField) or isinstance(field, FSMKeyField)
IsStateField(f) == f.type = "FSMField" \/ f.type = "FSMKeyField"

\* OnlyField without the check for a second state field.
FirstField(found) ==
    IF Len(found) = 0 THEN [exc |-> "TypeError", name |-> "None"]
    ELSE [exc |-> "none", name |-> found[1].name]

\* _get_state_field from "found = len(fields)" on: fields are the state
\* fields of the instance.
OnlyField(found) ==
    IF Len(found) = 0 THEN [exc |-> "TypeError", name |-> "None"]
    ELSE IF Len(found) > 1 THEN [exc |-> "TypeError", name |-> "None"]
    ELSE [exc |-> "none", name |-> found[1].name]

\* FSMMeta._get_state_field(instance)
_get_state_field(cls) == OnlyField(SelectSeq(MetaFields(cls), IsStateField))

\* getattr(instance, field_name), f being what _get_state_field did.
GetState(f, obj) ==
    IF f.exc # "none" THEN [exc |-> f.exc, val |-> "None"]
    ELSE [exc |-> "none", val |-> obj[f.name]]

\* FSMMeta.current_state(instance)
current_state(cls, obj) == GetState(_get_state_field(cls), obj)

\* has_key(current) or has_key('*'), cur being what current_state did.
HasKeys(meta, cur) ==
    IF cur.exc # "none" THEN [exc |-> cur.exc, val |-> FALSE]
    ELSE [exc |-> "none",
          val |-> has_key(meta.transitions, cur.val) \/ has_key(meta.transitions, Wildcard)]

\* has_transition answering True whatever the current state is.
has_transition_always(meta, cls, obj) ==
    [exc |-> current_state(cls, obj).exc, val |-> TRUE]

\* FSMMeta.has_transition(instance)
has_transition(meta, cls, obj) == HasKeys(meta, current_state(cls, obj))

\* The outcomes of calling the guards conds in order with args.
Outcomes(conds, args) == [k \in 1..Len(conds) |-> CallCondition(conds[k], args)]

\* The first guard whose outcome is in stop, or Len + 1 when there is none.
FirstIn(outcomes, stop) ==
    IF \E k \in 1..Len(outcomes) : outcomes[k] \in stop
    THEN CHOOSE k \in 1..Len(outcomes) :
            /\ outcomes[k] \in stop
            /\ \A j \in 1..(k - 1) : outcomes[j] \notin stop
    ELSE Len(outcomes) + 1

\* The guards called when the calls end with guard number n (or with the list).
Called(conds, outcomes, n) ==
    [k \in 1..(IF n > Len(conds) THEN Len(conds) ELSE n) |->
        Ev("guard", conds[k], outcomes[k])]

\* all(map(lambda f: f(instance, *args, **kwargs), conds)) inside
\* try/except TypeError.  Python 2's map calls every guard, in order, and
\* only an exception stops it; all() sees the finished list.
AllMap(conds, outcomes) ==
    [exc |-> "none",
     val |-> \A k \in 1..Len(outcomes) : outcomes[k] = "True",
     evals |-> Called(conds, outcomes, FirstIn(outcomes, {"TypeError"}))]

\* next = has_key(current) and transitions[current] or transitions['*']
NextOf(transitions, current) ==
    IF has_key(transitions, current) /\ Truthy(transitions[current])
    THEN [exc |-> "none", val |-> transitions[current]]
    ELSE IF has_key(transitions, Wildcard)
    THEN [exc |-> "none", val |-> transitions[Wildcard]]
    ELSE [exc |-> "KeyError", val |-> "None"]

\* conditions_met once next is computed.
MetFor(meta, next, args) ==
    IF next.exc # "none" THEN [exc |-> next.exc, val |-> FALSE, evals |-> <<>>]
    ELSE AllMap(meta.conditions[next.val], Outcomes(meta.conditions[next.val], args))

\* conditions_met once current_state is computed.
MetIn(meta, cur, args) ==
    IF cur.exc # "none" THEN [exc |-> cur.exc, val |-> FALSE, evals |-> <<>>]
    ELSE MetFor(meta, NextOf(meta.transitions, cur.val), args)

\* FSMMeta.conditions_met(instance, *args, **kwargs)
conditions_met(meta, cls, obj, args) == MetIn(meta, current_state(cls, obj), args)

\* NextState without the fallback to the wildcard entry.
NextStateExact(transitions, curr_state) ==
    IF has_key(transitions, curr_state)
    THEN [exc |-> "none", val |-> transitions[curr_state]]
    ELSE [exc |-> "KeyError", val |-> "None"]

\* try: next_state = transitions[curr_state]
\* except KeyError: next_state = transitions['*']
NextState(transitions, curr_state) ==
    IF has_key(transitions, curr_state)
    THEN [exc |-> "none", val |-> transitions[curr_state]]
    ELSE IF has_key(transitions, Wildcard)
    THEN [exc |-> "none", val |-> transitions[Wildcard]]
    ELSE [exc |-> "KeyError", val |-> "None"]

\* setattr(instance, field_name, next_state)
SetState(ctx, field_name, next) ==
    IF next.exc # "none" THEN [ctx |-> ctx, exc |-> next.exc]
    ELSE [ctx |-> [obj |-> [ctx.obj EXCEPT ![field_name] = next.val],
                   trace |-> Append(ctx.trace, Ev("write", field_name, next.val))],
          exc |-> "none"]

\* to_next_state once _get_state_field is computed.
SwitchState(meta, f, ctx) ==
    IF f.exc # "none" THEN [ctx |-> ctx, exc |-> f.exc]
    ELSE SetState(ctx, f.name, NextState(meta.transitions, ctx.obj[f.name]))

\* FSMMeta.to_next_state(instance): ctx is the instance and the events so far.
to_next_state(meta, cls, ctx) == SwitchState(meta, _get_state_field(cls), ctx)

(***************************************************************************)
(* The wrapper returned by the decorator                                   *)
(***************************************************************************)
\* func(instance, *args, **kwargs) for the undecorated function: what it
\* does is the caller's choice call.body.
Body(ctx, call) ==
    IF call.body.raises
    THEN Result(Log(ctx, Ev("body", "func", "raise")), "Exception", "None")
    ELSE Result(Log(ctx, Ev("body", "func", call.body.ret)), "none", call.body.ret)

\* instance.save(): Django's, which may fail.
save(ctx, call) ==
    Result(Log(ctx, Ev("save", "save", IF call.saveRaises THEN "raise" ELSE "None")),
           IF call.saveRaises THEN "DatabaseError" ELSE "none", "None")

\* for condition in conditions: if not condition(...): return False
\* The loop stops at the first guard that returns a falsy value or raises.
\* passed: every guard returned a truthy value.
ForConditions(conds, outcomes, stop, ctx) ==
    [ctx |-> [ctx EXCEPT !.trace = @ \o Called(conds, outcomes, stop)],
     exc |-> IF stop <= Len(conds) /\ outcomes[stop] = "TypeError" THEN "TypeError" ELSE "none",
     passed |-> stop > Len(conds)]

\* RunConditions calling every guard before looking at what they returned,
\* as map does.
RunConditionsEager(conds, args, ctx) ==
    [ctx |-> [ctx EXCEPT !.trace =
                 @ \o Called(conds, Outcomes(conds, args),
                             FirstIn(Outcomes(conds, args), {"TypeError"}))],
     exc |-> IF FirstIn(Outcomes(conds, args), {"TypeError"}) <= Len(conds)
             THEN "TypeError" ELSE "none",
     passed |-> \A k \in 1..Len(conds) : Outcomes(conds, args)[k] = "True"]

RunConditions(conds, args, ctx) ==
    ForConditions(conds, Outcomes(conds, args),
                  FirstIn(Outcomes(conds, args), {"False", "TypeError"}), ctx)

\* The end of _change_state: n is what meta.to_next_state(instance) did.
\* The wrapper falls off its end and returns None.
SaveIf(d, n, call) ==
    IF n.exc # "none" THEN Result(n.ctx, n.exc, "None")
    ELSE IF d.save THEN save(n.ctx, call)
    ELSE Result(n.ctx, "none", "None")

\* AfterFunc advancing the state although func raised (a try/finally).
AfterFuncFinally(meta, cls, d, r, call) ==
    Result(SaveIf(d, to_next_state(meta, cls, r.ctx), call).ctx, r.exc, "None")

\* _change_state from the call of func on: r is what func(instance, ...)
\* did.  Its return value is dropped.
AfterFunc(meta, cls, d, r, call) ==
    IF r.exc # "none" THEN Result(r.ctx, r.exc, "None")
    ELSE SaveIf(d, to_next_state(meta, cls, r.ctx), call)

RECURSIVE _change_state(_, _, _, _, _)
RECURSIVE Guarded(_, _, _, _, _, _, _)
RECURSIVE Checked(_, _, _, _, _, _, _, _)

\* _change_state after the guards: g is what the loop over conditions did.
Guarded(cls, m, k, call, d, meta, g) ==
    IF g.exc # "none" THEN Result(g.ctx, g.exc, "None")
    ELSE IF ~g.passed THEN Result(g.ctx, "none", "False")
    ELSE AfterFunc(meta, cls, d, _change_state(cls, m, k - 1, g.ctx, call), call)

\* _change_state after the legality check: ht is what has_transition did.
Checked(cls, m, k, ctx, call, d, meta, ht) ==
    IF ht.exc # "none" THEN Result(ctx, ht.exc, "None")
    ELSE IF ~ht.val THEN Result(ctx, "NotImplementedError", "None")
    ELSE Guarded(cls, m, k, call, d, meta, RunConditions(d.conditions, call.args, ctx))

\* The wrapper made by the k-th decorator of method m.  Its func is the
\* wrapper made by decorator k-1, and the undecorated function for k = 1.
\* @wraps copies func.__dict__, so every wrapper holds the same FSMMeta.
_change_state(cls, m, k, ctx, call) ==
    IF k = 0 THEN Body(ctx, call)
    ELSE Checked(cls, m, k, ctx, call, Decorators(cls)[m][k], django_fsm(cls, m),
                 has_transition(django_fsm(cls, m), cls, ctx.obj))

\* instance.m(*args, **kwargs): the class attribute is the outermost wrapper.
CallMethod(cls, m, obj, call) ==
    _change_state(cls, m, Len(Decorators(cls)[m]), [obj |-> obj, trace |-> <<>>], call)

(***************************************************************************)
(* Queries                                                                 *)
(***************************************************************************)
\* AndMet answering from the legality check alone, the guards left out.
AndMetUnguarded(meta, ht, cls, obj, args) ==
    [exc |-> ht.exc, val |-> ht.exc = "none" /\ ht.val, evals |-> <<>>]

\* has_transition(im_self) and conditions_met(im_self, *args, **kwargs)
AndMet(meta, ht, cls, obj, args) ==
    IF ht.exc # "none" THEN [exc |-> ht.exc, val |-> FALSE, evals |-> <<>>]
    ELSE IF ~ht.val THEN [exc |-> "none", val |-> FALSE, evals |-> <<>>]
    ELSE conditions_met(meta, cls, obj, args)

\* can_proceed(instance.m, *args, **kwargs)
can_proceed(cls, m, obj, args) ==
    IF m \notin TransitionMethods(cls)
    THEN [exc |-> "NotImplementedError", val |-> FALSE, evals |-> <<>>]
    ELSE AndMet(django_fsm(cls, m), has_transition(django_fsm(cls, m), cls, obj),
                cls, obj, args)

Unbound == "<unbound>"

\* attr_obj in the k-th round of "for attr in dir(instance)": when getattr
\* raises AttributeError the except clause passes, and attr_obj keeps the
\* value of the last attribute read (or is still unbound).
AttrObj(attrs, k) ==
    IF \A j \in 1..k : attrs[j] \in Unreadable THEN Unbound
    ELSE attrs[CHOOSE j \in 1..k : /\ attrs[j] \notin Unreadable
                                   /\ \A h \in (j + 1)..k : attrs[h] \in Unreadable]

\* The rounds whose attr_obj is a transition registered for source, in order:
\*     if hasattr(attr_obj, '__call__') and hasattr(attr_obj, '_django_fsm'):
\*         for source, target in attr_obj._django_fsm.transitions.iteritems():
Registered(objs, cls, source) ==
    SelectSeq(objs, LAMBDA o : /\ o \in TransitionMethods(cls)
                               /\ source \in DOMAIN django_fsm(cls, o).transitions)

\* state_actions[source] after the loop: one (attr_obj, target) per round,
\* attr_obj being the method bound to the instance scanned.
Appended(hits, cls, inst, source) ==
    [k \in 1..Len(hits) |->
        [method |-> hits[k], self |-> inst,
         target |-> django_fsm(cls, hits[k]).transitions[source]]]

\* The index built from the attr_obj of every round.
IndexOf(objs, cls, inst) ==
    IF \E k \in 1..Len(objs) : objs[k] = Unbound
    THEN [exc |-> "UnboundLocalError", index |-> <<>>]
    ELSE [exc |-> "none",
          index |-> [s \in {t \in UNION {DOMAIN django_fsm(cls, m).transitions :
                                            m \in TransitionMethods(cls)} :
                               Registered(objs, cls, t) # <<>>} |->
                        Appended(Registered(objs, cls, s), cls, inst, s)]]

\* The loop of accessible_states that builds the index.
ScanAttrs(attrs, cls, inst) ==
    IndexOf([k \in 1..Len(attrs) |-> AttrObj(attrs, k)], cls, inst)

NotBuilt == [built |-> FALSE, index |-> <<>>]

\* hasattr(instance.__class__, '_state_actions'): an attribute of a class is
\* looked up on the class and then on its bases.
HasIndex(cls, cache) ==
    cache[cls].built \/ (Base(cls) \in Classes /\ cache[Base(cls)].built)

\* The class whose attribute instance.__class__._state_actions reads.
Holder(cls, cache) == IF cache[cls].built THEN cls ELSE Base(cls)

\* The class whose attribute a call on an instance of cls uses: the holder
\* when there is one, and cls itself, which the call then assigns.
Owner(cls, cache) == IF HasIndex(cls, cache) THEN Holder(cls, cache) ELSE cls

\* action._django_fsm.conditions_met(instance, ...) of every candidate.
MetEach(actions, cls, obj, args) ==
    [k \in 1..Len(actions) |->
        conditions_met(django_fsm(cls, actions[k].method), cls, obj, args)]

RECURSIVE Evals(_, _)
\* The guard calls of the first n candidates, in order.
Evals(met, n) == IF n = 0 THEN <<>> ELSE Evals(met, n - 1) \o met[n].evals

\* for action, target in state_actions[current]:
\*     if action._django_fsm.conditions_met(instance, ...): states.append(...)
FilterActions(actions, met) ==
    IF \E k \in 1..Len(met) : met[k].exc # "none"
    THEN [exc |-> met[CHOOSE k \in 1..Len(met) :
                        /\ met[k].exc # "none"
                        /\ \A j \in 1..(k - 1) : met[j].exc = "none"].exc,
          states |-> <<>>, evals |-> <<>>]
    ELSE [exc |-> "none",
          states |-> SelectSeq(actions, LAMBDA a :
                        \E k \in 1..Len(actions) : actions[k] = a /\ met[k].val),
          evals |-> Evals(met, Len(met))]

\* accessible_states from "states = []" on.  Reading a missing key of the
\* defaultdict stores an empty list under it.
Lookup(index, cur, cls, obj, args) ==
    IF cur.exc # "none"
    THEN [exc |-> cur.exc, states |-> <<>>, evals |-> <<>>,
          cache |-> [built |-> TRUE, index |-> index]]
    ELSE IF cur.val \in DOMAIN index
    THEN [cache |-> [built |-> TRUE, index |-> index]] @@
         FilterActions(index[cur.val], MetEach(index[cur.val], cls, obj, args))
    ELSE [exc |-> "none", states |-> <<>>, evals |-> <<>>,
          cache |-> [built |-> TRUE, index |-> (cur.val :> <<>>) @@ index]]

\* accessible_states once the index is at hand.
WithIndex(scan, cache, cls, obj, args) ==
    IF scan.exc # "none"
    THEN [exc |-> scan.exc, states |-> <<>>, evals |-> <<>>, cache |-> cache]
    ELSE Lookup(scan.index, current_state(cls, obj), cls, obj, args)

\* accessible_states(instance, *args, **kwargs): cache is
\* instance.__class__._state_actions before the call, and the cache field of
\* the result what it is after.
accessible_states(cls, inst, obj, args, cache) ==
    WithIndex(IF cache.built THEN [exc |-> "none", index |-> cache.index]
              ELSE ScanAttrs(Dir(cls), cls, inst),
              cache, cls, obj, args)

(***************************************************************************)
(* The state machine                                                       *)
(***************************************************************************)
NoBody == [raises |-> FALSE, ret |-> "None"]
NoArgs == [pos |-> <<>>]

Op(o, i, m, a, b, sr, pre, e, v, st, tr) ==
    [op |-> o, inst |-> i, method |-> m, args |-> a, body |-> b, saveRaises |-> sr,
     pre |-> pre, exc |-> e, val |-> v, states |-> st, trace |-> tr]

\* No operation is running and the outcome of the last one has been taken.
Idle == Op("none", "a", "None", NoArgs, NoBody, FALSE, <<>>, "none", "None", <<>>, <<>>)

\* No thread is inside accessible_states.
IdleThread ==
    [pc |-> "idle", inst |-> "a", found |-> FALSE, owner |-> "object",
     scan |-> [exc |-> "none", index |-> <<>>]]

AllIdle == \A t \in Threads : threads[t].pc = "idle"

\* Two freshly constructed instances, of one class or of a class and a
\* subclass of it; nothing cached, no call in progress.
Init ==
    \E c \in Classes : \E d \in {c} \cup Subclasses(c) :
        /\ klass = [i \in Instances |-> IF i = "a" THEN c ELSE d]
        /\ fields = [i \in Instances |-> NewInstance(IF i = "a" THEN c ELSE d)]
        /\ _state_actions = [k \in Classes |-> NotBuilt]
        /\ threads = [t \in Threads |-> IdleThread]
        /\ scans = [k \in Classes |-> 0]
        /\ last = Idle

Saves(cls, m) == \E k \in 1..Len(Decorators(cls)[m]) : Decorators(cls)[m][k].save

\* The callable attributes of an instance of cls that dir() lists.
Callables(cls) ==
    {Dir(cls)[k] : k \in 1..Len(Dir(cls))} \cap (TransitionMethods(cls) \cup PlainCallables)

\* instance.m(*args, **kwargs) for a transition method m.  Calls are made
\* while no thread is inside accessible_states.
Call(i, m, args, body, saveRaises) ==
    /\ last.op = "none" /\ AllIdle
    /\ m \in TransitionMethods(klass[i])
    /\ saveRaises => Saves(klass[i], m)
    /\ LET r == CallMethod(klass[i], m, fields[i],
                           [args |-> args, body |-> body, saveRaises |-> saveRaises])
       IN  /\ fields' = [fields EXCEPT ![i] = r.ctx.obj]
           /\ last' = Op("call", i, m, args, body, saveRaises, fields[i],
                         r.exc, r.val, <<>>, r.ctx.trace)
    /\ UNCHANGED <<klass, _state_actions, threads, scans>>

\* CanProceed answering by making the call and looking at what it did.
CanProceedByCalling(i, m, args) ==
    /\ last.op = "none" /\ AllIdle
    /\ m \in TransitionMethods(klass[i])
    /\ LET r == CallMethod(klass[i], m, fields[i],
                           [args |-> args, body |-> NoBody, saveRaises |-> FALSE])
       IN  /\ fields' = [fields EXCEPT ![i] = r.ctx.obj]
           /\ last' = Op("can_proceed", i, m, args, NoBody, FALSE, fields[i],
                         r.exc, IF r.exc = "none" THEN "True" ELSE "False", <<>>,
                         r.ctx.trace)
    /\ UNCHANGED <<klass, _state_actions, threads, scans>>

\* can_proceed(instance.m, *args, **kwargs) for a callable attribute m.
CanProceed(i, m, args) ==
    /\ last.op = "none" /\ AllIdle
    /\ m \in Callables(klass[i])
    /\ LET r == can_proceed(klass[i], m, fields[i], args)
       IN  last' = Op("can_proceed", i, m, args, NoBody, FALSE, fields[i],
                      r.exc, IF r.val THEN "True" ELSE "False", <<>>, r.evals)
    /\ UNCHANGED <<klass, fields, _state_actions, threads, scans>>

\* accessible_states(instance, *args, **kwargs), run from its first line to
\* its last with no other thread in between.
AccessibleStates(i, args) ==
    /\ last.op = "none" /\ AllIdle
    /\ LET r == accessible_states(klass[i], i, fields[i], args,
                                  _state_actions[Owner(klass[i], _state_actions)])
       IN  /\ _state_actions' =
                  [_state_actions EXCEPT ![Owner(klass[i], _state_actions)] = r.cache]
           /\ last' = Op("accessible_states", i, "None", args, NoBody, FALSE, fields[i],
                         r.exc, "None", r.states, r.evals)
    /\ scans' = IF HasIndex(klass[i], _state_actions) THEN scans
                ELSE [scans EXCEPT ![klass[i]] = @ + 1]
    /\ UNCHANGED <<klass, fields, threads>>

\* TEnter assigning the class attribute before the scan has filled the
\* dictionary.
TEnterPublishing(t, i) ==
    /\ last.op = "none"
    /\ threads[t].pc = "idle"
    /\ threads' = [threads EXCEPT ![t] =
                      [IdleThread EXCEPT
                          !.pc = IF HasIndex(klass[i], _state_actions) THEN "load" ELSE "scan",
                          !.inst = i,
                          !.found = HasIndex(klass[i], _state_actions)]]
    /\ _state_actions' =
           IF HasIndex(klass[i], _state_actions) THEN _state_actions
           ELSE [_state_actions EXCEPT ![klass[i]] = [built |-> TRUE, index |-> <<>>]]
    /\ UNCHANGED <<klass, fields, scans, last>>

\* Thread t enters accessible_states(instance i, ...) and evaluates
\*     if not hasattr(instance.__class__, '_state_actions'):
TEnter(t, i) ==
    /\ last.op = "none"
    /\ threads[t].pc = "idle"
    /\ threads' = [threads EXCEPT ![t] =
                      [IdleThread EXCEPT
                          !.pc = IF HasIndex(klass[i], _state_actions) THEN "load" ELSE "scan",
                          !.inst = i,
                          !.found = HasIndex(klass[i], _state_actions)]]
    /\ UNCHANGED <<klass, fields, _state_actions, scans, last>>

\* The thread leaves accessible_states with what scan raised.
TRaise(t, scan) ==
    /\ threads' = [threads EXCEPT ![t] = IdleThread]
    /\ last' = Op("accessible_states", threads[t].inst, "None", NoArgs, NoBody, FALSE,
                  fields[threads[t].inst], scan.exc, "None", <<>>, <<>>)

\* The thread goes on to the assignment of the class attribute.
TScanned(t, scan) ==
    /\ threads' = [threads EXCEPT ![t].pc = "publish", ![t].scan = scan]
    /\ UNCHANGED last

\* state_actions = defaultdict(list) and the loop over dir(instance): the
\* dictionary is local to the thread until it is assigned to the class.
TScan(t) ==
    /\ last.op = "none"
    /\ threads[t].pc = "scan"
    /\ scans' = [scans EXCEPT ![klass[threads[t].inst]] = @ + 1]
    /\ IF ScanAttrs(Dir(klass[threads[t].inst]), klass[threads[t].inst],
                    threads[t].inst).exc # "none"
       THEN TRaise(t, ScanAttrs(Dir(klass[threads[t].inst]), klass[threads[t].inst],
                                threads[t].inst))
       ELSE TScanned(t, ScanAttrs(Dir(klass[threads[t].inst]), klass[threads[t].inst],
                                  threads[t].inst))
    /\ UNCHANGED <<klass, fields, _state_actions>>

\* instance.__class__._state_actions = state_actions
TPublish(t) ==
    /\ last.op = "none"
    /\ threads[t].pc = "publish"
    /\ _state_actions' = [_state_actions EXCEPT ![klass[threads[t].inst]] =
                             [built |-> TRUE, index |-> threads[t].scan.index]]
    /\ threads' = [threads EXCEPT ![t].pc = "select",
                                  ![t].owner = klass[threads[t].inst]]
    /\ UNCHANGED <<klass, fields, scans, last>>

\* The end of accessible_states in thread t, which holds the dictionary
\* index of class owner: from "states = []" to the return.  args are the
\* arguments of the call, first used here.  The dictionary the thread holds
\* is the class attribute's when the two are equal: reading a missing key
\* then shows in the class attribute too.
TReturn(t, args, owner, index) ==
    /\ LET i == threads[t].inst
           r == Lookup(index, current_state(klass[i], fields[i]),
                       klass[i], fields[i], args)
       IN  /\ _state_actions' =
                  IF _state_actions[owner].index = index
                  THEN [_state_actions EXCEPT ![owner] = r.cache]
                  ELSE _state_actions
           /\ last' = Op("accessible_states", i, "None", args, NoBody, FALSE, fields[i],
                         r.exc, "None", r.states, r.evals)
    /\ threads' = [threads EXCEPT ![t] = IdleThread]
    /\ UNCHANGED <<klass, fields, scans>>

\* else: state_actions = instance.__class__._state_actions, and the rest of
\* the function on the dictionary found.
TLoad(t, args) ==
    /\ last.op = "none"
    /\ threads[t].pc = "load"
    /\ TReturn(t, args, Holder(klass[threads[t].inst], _state_actions),
               _state_actions[Holder(klass[threads[t].inst], _state_actions)].index)

\* The rest of the function in the thread that built the dictionary.
TSelect(t, args) ==
    /\ last.op = "none"
    /\ threads[t].pc = "select"
    /\ TReturn(t, args, threads[t].owner, threads[t].scan.index)

\* The caller takes the outcome (the return value or the exception) and goes
\* on.
Return ==
    /\ last.op # "none"
    /\ last' = Idle
    /\ UNCHANGED <<klass, fields, _state_actions, threads, scans>>

Next ==
    \/ \E i \in Instances : \E m \in TransitionMethods(klass[i]), args \in ArgChoices,
          body \in BodyChoices, saveRaises \in BOOLEAN :
          Call(i, m, args, body, saveRaises)
    \/ \E i \in Instances : \E m \in Callables(klass[i]), args \in ArgChoices :
          CanProceed(i, m, args)
    \/ \E i \in Instances, args \in ArgChoices : AccessibleStates(i, args)
    \/ \E t \in Threads : TEnter(t, Entity(t))
    \/ \E t \in Threads : TScan(t)
    \/ \E t \in Threads : TPublish(t)
    \/ \E t \in Threads, args \in ArgChoices : TLoad(t, args)
    \/ \E t \in Threads, args \in ArgChoices : TSelect(t, args)
    \/ Return

Spec == Init /\ [][Next]_vars

(***************************************************************************)
(* Vocabulary of the properties: the last operation, read from last        *)
(***************************************************************************)
Range(q) == {q[k] : k \in 1..Len(q)}

\* The state-bearing attributes a class declares.
StateFields(cls) == {f.name : f \in {g \in Range(MetaFields(cls)) : IsStateField(g)}}

WellFormed(cls) == Cardinality(StateFields(cls)) = 1

\* The state of an instance obj of a well-formed class.
StateIn(cls, obj) == obj[CHOOSE n \in StateFields(cls) : TRUE]

Cls    == klass[last.inst]
Before == StateIn(Cls, last.pre)
After  == StateIn(Cls, fields[last.inst])

\* The decorators of the method called, when it is a transition.
Decs == Decorators(Cls)[last.method]

DeclaredSources(decs) == UNION {Range(decs[k].source.states) : k \in 1..Len(decs)}

DeclaredGuards(decs) == UNION {Range(decs[k].conditions) : k \in 1..Len(decs)}

\* A transition method was called on an instance with one state attribute.
ACall == last.op = "call" /\ WellFormed(Cls)

\* The current state matches a source of the method called, exact or wildcard.
Legal == Before \in DeclaredSources(Decs) \/ Wildcard \in DeclaredSources(Decs)

Events(kind) == {k \in 1..Len(last.trace) : last.trace[k].ev = kind}

BodyRan    == Events("body") # {}
BodyRaised == \E k \in Events("body") : last.trace[k].res = "raise"
Saved      == Events("save") # {}
Wrote      == Events("write") # {}

AllGuardsTruthy == \A g \in DeclaredGuards(Decs) : CallCondition(g, last.args) = "True"
SomeGuardFalsy  == \E g \in DeclaredGuards(Decs) : CallCondition(g, last.args) = "False"
SomeGuardRaised == \E k \in Events("guard") : last.trace[k].res = "TypeError"

Returned    == last.exc = "none"
Falsy(v)    == v \in {"None", "False", ""}
Unchanged   == fields[last.inst] = last.pre

\* The call was accepted: legal, every guard passed, the body completed.
Accepted == ACall /\ Legal /\ AllGuardsTruthy /\ BodyRan /\ ~BodyRaised

(***************************************************************************)
(* Properties                                                              *)
(***************************************************************************)
\* C1: in state S, calling a transition method that declares source S with
\* target T, all its guards returning truthy and its body completing, leaves
\* the entity in state T, whichever declared source S was.
C1_CallReachesDeclaredTarget ==
    ACall =>
        \A k \in 1..Len(Decs) :
            (/\ Before \in Range(Decs[k].source.states)
             /\ AllGuardsTruthy
             /\ ~last.body.raises) => After = Decs[k].target

\* C2: a call from a state with neither an exact-source nor a wildcard entry
\* fails with the illegal-transition error; no guard is evaluated, the body
\* and the save hook do not run and the state is unchanged, so any number of
\* such calls leave the state where it was.
C2_IllegalCallChangesNothing ==
    (ACall /\ ~Legal) =>
        /\ last.exc = "NotImplementedError"
        /\ last.trace = <<>>
        /\ Unchanged

\* An illegal call made on an entity that has already left its initial state.
C2_Witness ==
    /\ ACall /\ ~Legal
    /\ Before = "published"
    /\ last.method = "publish"
    /\ last.exc = "NotImplementedError"

\* C3: when the body raises, the exception reaches the caller and the state
\* is what it was before the call, whatever the guards and the save flag; the
\* state is not advanced and the save hook is not called.
C3_BodyExceptionKeepsState ==
    (ACall /\ BodyRaised) =>
        /\ last.exc = "Exception"
        /\ Unchanged
        /\ ~Wrote
        /\ ~Saved

\* The body of a transition registered with save=True raised.
C3_Witness ==
    /\ ACall /\ BodyRaised
    /\ Saves(Cls, last.method)
    /\ Before = "published"

\* C4: when the state matches a source and a guard of the method returns
\* falsy for the arguments, the call returns a falsy value without raising,
\* runs neither the body nor the save hook and leaves the state unchanged.
C4_GuardRejectionKeepsState ==
    (ACall /\ Legal /\ SomeGuardFalsy) =>
        /\ Returned /\ Falsy(last.val)
        /\ ~BodyRan
        /\ ~Saved
        /\ Unchanged

\* C5: a guard that raises during a transition call counts as not met: the
\* caller gets a falsy value and no exception, the body does not run and the
\* state is unchanged.
C5_RaisingGuardIsSwallowed ==
    (ACall /\ SomeGuardRaised) =>
        /\ Returned /\ Falsy(last.val)
        /\ ~BodyRan
        /\ Unchanged

\* What the dispatch does with method m from the state and with the
\* arguments of the query, its body completing.
Dispatch(m) ==
    CallMethod(Cls, m, last.pre,
               [args |-> last.args, body |-> NoBody, saveRaises |-> FALSE])

\* The dispatch accepts m and would advance the state to target.
WouldAdvance(m, target) ==
    /\ Dispatch(m).exc = "none"
    /\ \E k \in 1..Len(Dispatch(m).ctx.trace) : Dispatch(m).ctx.trace[k].ev = "body"
    /\ StateIn(Cls, Dispatch(m).ctx.obj) = target

\* C6: accessible_states returns exactly the (method, target) pairs the
\* dispatch would accept for the same entity and arguments.
C6_AccessibleMatchesDispatch ==
    (last.op = "accessible_states" /\ WellFormed(Cls) /\ Returned) =>
        \A m \in TransitionMethods(Cls) :
            \A target \in Range(Decorators(Cls)[m]) :
                (\E a \in Range(last.states) : a.method = m /\ a.target = target.target)
                    <=> WouldAdvance(m, target.target)

\* C7: with an exact registration S -> T1 and a wildcard registration
\* * -> T2 on one method, a successful call from S ends in T1.
C7_ExactBeatsWildcard ==
    Accepted =>
        \A j, k \in 1..Len(Decs) :
            (/\ Before \in Range(Decs[j].source.states)
             /\ Wildcard \in Range(Decs[k].source.states)
             /\ Decs[j].target # Decs[k].target) => After = Decs[j].target

\* C8: a method registered for the wildcard source only, with target T, can
\* be called from every state the entity is in, T included, and each call
\* that completes leaves the entity in T.
C8_WildcardFromAnyState ==
    (ACall /\ DeclaredSources(Decs) = {Wildcard}) =>
        /\ last.exc # "NotImplementedError"
        /\ (AllGuardsTruthy /\ ~last.body.raises) =>
               /\ BodyRan
               /\ \A k \in 1..Len(Decs) : After = Decs[k].target

\* A wildcard-only method called again from its own target, after other
\* transitions.
C8_Witness ==
    /\ ACall /\ DeclaredSources(Decs) = {Wildcard}
    /\ Before = "moderated"
    /\ After = "moderated"
    /\ BodyRan /\ Returned
    /\ fields[IF last.inst = "a" THEN "b" ELSE "a"][CHOOSE n \in StateFields(Cls) : TRUE] = "stolen"

\* C9: on an entity declaring no state attribute, or more than one, every
\* transition call, can_proceed query and accessible_states query fails with
\* the configuration error (TypeError); no body runs and no field is written.
C9_MisconfiguredEntityFails ==
    (/\ last.op # "none"
     /\ ~WellFormed(Cls)
     /\ last.op = "can_proceed" => last.method \in TransitionMethods(Cls)) =>
        /\ last.exc = "TypeError"
        /\ ~BodyRan /\ ~Wrote /\ ~Saved
        /\ \A i \in Instances : fields[i] = NewInstance(klass[i])

\* A transition called on the model with two state fields.
C9_Witness ==
    /\ last.op = "call"
    /\ Cardinality(StateFields(Cls)) = 2
    /\ last.method = "validate"
    /\ last.exc = "TypeError"

\* C10: an accepted call returns to the caller the value the body returned.
C10_ReturnsBodyValue ==
    (Accepted /\ Returned) => last.val = last.body.ret

\* The bodies that complete, and the save outcomes method m of cls can meet.
Completing == {b \in BodyChoices : ~b.raises}
SaveOutcomes(cls, m) == IF Saves(cls, m) THEN BOOLEAN ELSE {FALSE}

\* Calling the method of the query in the state and with the arguments of
\* the query, its body being b and its save raising or not.
CallAfterQuery(b, sr) ==
    CallMethod(Cls, last.method, last.pre,
               [args |-> last.args, body |-> b, saveRaises |-> sr])

\* The call r wrote the state attribute, and the value written was target.
Advanced(r, target) ==
    \E k \in 1..Len(r.ctx.trace) :
        r.ctx.trace[k].ev = "write" /\ r.ctx.trace[k].res = target

\* can_proceed was asked about a method with one transition decorator.
ASingleQuery ==
    /\ last.op = "can_proceed"
    /\ last.method \in TransitionMethods(Cls)
    /\ Len(Decs) = 1

\* C11: for a singly decorated method whose body completes, can_proceed
\* returns true exactly when the call with the same arguments in the same
\* state advances the entity to the method's target; when it does not return
\* true the call leaves the entity as it was.
C11_CanProceedAgreesWithCall ==
    ASingleQuery =>
        \A b \in Completing : \A sr \in SaveOutcomes(Cls, last.method) :
            /\ (Returned /\ last.val = "True")
                   <=> Advanced(CallAfterQuery(b, sr), Decs[1].target)
            /\ ~(Returned /\ last.val = "True")
                   => CallAfterQuery(b, sr).ctx.obj = last.pre

\* can_proceed answered true for a guard that depends on the arguments.
C11_Witness ==
    /\ ASingleQuery
    /\ last.method = "approve"
    /\ last.args.pos = <<"bar">>
    /\ Returned /\ last.val = "True"

\* An introspection query was made.
AQuery == last.op \in {"can_proceed", "accessible_states"}

\* C12: can_proceed and accessible_states never invoke a transition: after
\* a query the entity is as it was before it, no transition body has run, the
\* state attribute has not been written and the save hook was not called.
C12_QueriesInvokeNothing ==
    AQuery =>
        /\ Unchanged
        /\ ~BodyRan
        /\ ~Wrote
        /\ ~Saved

\* accessible_states evaluated guards with an argument and found transitions
\* on an entity that had left its initial state.
C12_Witness ==
    /\ last.op = "accessible_states"
    /\ WellFormed(Cls) /\ Before = "published"
    /\ last.args.pos = <<"bar">>
    /\ Events("guard") # {}
    /\ last.states # <<>>

\* The decorators of decs whose registration applies from state s: those
\* naming s as a source, and those of the wildcard when none names s.
Applies(decs, s) ==
    IF \E k \in 1..Len(decs) : s \in Range(decs[k].source.states)
    THEN {k \in 1..Len(decs) : s \in Range(decs[k].source.states)}
    ELSE {k \in 1..Len(decs) : Wildcard \in Range(decs[k].source.states)}

\* The save hook was called once, and the last write of the state attribute
\* before it wrote target.
SavedOnceHolding(target) ==
    /\ Cardinality(Events("save")) = 1
    /\ \E s \in Events("save") : \E w \in Events("write") :
           /\ w < s
           /\ \A v \in Events("write") : v <= w
           /\ last.trace[w].res = target

\* C13: an accepted call of a transition registered with save=True calls the
\* save hook exactly once, after the state attribute holds the target; a
\* transition registered with save=False never calls it, and no rejected call
\* (illegal, guard rejection, body exception) calls it.
C13_SaveOnceAfterAdvance ==
    ACall =>
        /\ \A k \in Applies(Decs, Before) :
               /\ (Decs[k].save /\ Accepted) => SavedOnceHolding(Decs[k].target)
               /\ ~Decs[k].save => ~Saved
        /\ ~Accepted => ~Saved

\* C14: the member scan that builds the index of a class runs at most once
\* per class, over any sequence of introspection calls on any instances and
\* also when threads make the first call on the class concurrently.
C14_IndexBuiltAtMostOnce ==
    \A c \in Classes : scans[c] <= 1

\* The dictionary index holds every (source, method, target) entry declared
\* on class c.
Complete(index, c) ==
    \A m \in TransitionMethods(c) :
        \A source \in DOMAIN django_fsm(c, m).transitions :
            /\ source \in DOMAIN index
            /\ \E k \in 1..Len(index[source]) :
                   /\ index[source][k].method = m
                   /\ index[source][k].target = django_fsm(c, m).transitions[source]

\* C15: under any interleaving of concurrent introspection calls, a caller
\* that finds the index cached on the class reads a complete index: the
\* class attribute never holds a partially filled dictionary.
C15_CachedIndexIsComplete ==
    /\ \A c \in Classes :
           _state_actions[c].built => Complete(_state_actions[c].index, c)
    /\ \A t \in Threads :
           threads[t].pc = "load" =>
               Complete(_state_actions[Holder(klass[threads[t].inst], _state_actions)].index,
                        Holder(klass[threads[t].inst], _state_actions))

\* A thread has found the index on the class while another thread, which
\* found none, has scanned and not yet assigned its own.
C15_Witness ==
    \E t, u \in Threads :
        /\ threads[t].pc = "load"
        /\ threads[u].pc = "publish"
        /\ klass[threads[t].inst] = klass[threads[u].inst]
        /\ TransitionMethods(klass[threads[t].inst]) # {}

RECURSIVE GuardOrder(_, _)
\* The guards of the first k decorators of decs in the order the wrappers
\* meet them: the outermost decorator first, each list in declared order.
GuardOrder(decs, k) ==
    IF k = 0 THEN <<>> ELSE decs[k].conditions \o GuardOrder(decs, k - 1)

\* The guard evaluations of the last operation, in order.
GuardEvents == SelectSeq(last.trace, LAMBDA e : e.ev = "guard")

\* C16: during a transition call the guards are evaluated in declared order
\* with the arguments of the call; after a guard that returns falsy no
\* further guard is evaluated; every guard has been evaluated before the
\* body starts.
C16_GuardsInOrderShortCircuit ==
    ACall =>
        /\ Len(GuardEvents) <= Len(GuardOrder(Decs, Len(Decs)))
        /\ \A k \in 1..Len(GuardEvents) :
               /\ GuardEvents[k].what = GuardOrder(Decs, Len(Decs))[k]
               /\ GuardEvents[k].res = CallCondition(GuardEvents[k].what, last.args)
               /\ k < Len(GuardEvents) => GuardEvents[k].res = "True"
        /\ \A g \in Events("guard") : \A b \in Events("body") : g < b
        /\ BodyRan => Len(GuardEvents) = Len(GuardOrder(Decs, Len(Decs)))

\* The first of two guards returned falsy and the second was not called.
C16_Witness ==
    /\ ACall /\ Legal
    /\ Len(GuardOrder(Decs, Len(Decs))) = 2
    /\ Len(GuardEvents) = 1
    /\ GuardEvents[1].res = "False"
    /\ Returned /\ ~BodyRan

\* C17: every (method, target) pair accessible_states(e) returns is the
\* method bound to e itself, so that invoking it acts on e and on no other
\* instance, also when the index of the class was built by a query on another
\* instance.
C17_ReturnedMethodsBoundToEntity ==
    (last.op = "accessible_states" /\ Returned) =>
        \A k \in 1..Len(last.states) : last.states[k].self = last.inst

\* C18: for a method with two stacked transition decorators, a call in which
\* an evaluated guard returns falsy leaves the state unchanged, and an
\* accepted call runs the body once and writes the state attribute exactly
\* once, to the target registered for the state the call began in.
C18_StackedAdvancesOnce ==
    (ACall /\ Len(Decs) = 2) =>
        /\ (\E g \in Events("guard") : last.trace[g].res = "False") => Unchanged
        /\ Accepted =>
               /\ Cardinality(Events("body")) = 1
               /\ Cardinality(Events("write")) = 1
               /\ \A w \in Events("write") :
                      last.trace[w].res =
                          NextState(django_fsm(Cls, last.method).transitions, Before).val

\* C19: the index that answers accessible_states for an instance of class C
\* is built from the members of C and holds every transition method declared
\* on C, also when an index was cached for a base class of C before the first
\* query on an instance of C.
C19_IndexOfOwnClass ==
    (last.op = "accessible_states" /\ Returned) =>
        Complete(_state_actions[Owner(Cls, _state_actions)].index, Cls)

\* The entries of a list that stand for the same (method, target) pair as an
\* earlier entry of it.
Repeats(l) ==
    {k \in 1..Len(l) : \E j \in 1..(k - 1) :
        l[j].method = l[k].method /\ l[j].target = l[k].target}

\* C20: the index holds, under each source state, one entry per declared
\* (method, source -> target) pair, and accessible_states never returns the
\* same (method, target) pair twice, also when reading an attribute of the
\* instance fails during the member scan.
C20_NoDuplicateEntries ==
    /\ \A c \in Classes : \A source \in DOMAIN _state_actions[c].index :
           Repeats(_state_actions[c].index[source]) = {}
    /\ last.op = "accessible_states" => Repeats(last.states) = {}

====
